---- MODULE Spec2Model ----
(***************************************************************************)
(* A model of the remote-control bot: the access gate                      *)
(* (bot/security.py), the path resolver, the command authorizer and the    *)
(* request handlers (bot/handlers.py) and the bounded executor             *)
(* (bot/utils.py).                                                         *)
(*                                                                         *)
(* Strings are sequences of one-character strings, so that strip, split,   *)
(* lower, startswith and basename are computed the way the code computes   *)
(* them.  A Path object is the sequence of its components (always          *)
(* absolute once resolved); the root directory "/" is the empty sequence.  *)
(***************************************************************************)
EXTENDS Integers, Sequences, FiniteSets, TLC

VARIABLES
    fs,        \* the file system: directories, files (with sizes), symlinks
    settings,  \* the frozen Settings object
    ev,        \* the inbound event being processed
    pc,        \* where its processing stands: gate, handler, run, done
    gate,      \* the middleware's decision on it: pending, allow, deny
    handler,   \* the handler entered for it ("none" before, or when none is)
    log,       \* what the request did so far, in program order
    run,       \* the run_shell invocations: "fg" awaited by the handler,
               \* "bg" the detached task of /power
    fin,       \* pure-function specifications: the call being made
    fout       \* pure-function specifications: its result

reqvars == <<settings, ev, pc, gate, handler, log, run>>
vars == <<fs, settings, ev, pc, gate, handler, log, run, fin, fout>>

\* the result record before the call is made; has_preview and has_path
\* tell a value from None
NoResult ==
    [done |-> FALSE, raised |-> FALSE, path |-> <<>>, allowed |-> FALSE,
     has_preview |-> FALSE, preview |-> <<>>, has_path |-> FALSE]

-----------------------------------------------------------------------------
(* Bounds of the model                                                     *)

\* longest Path (in components) handed to _ensure_inside
MaxDepth == 3
\* longest raw path string (in chunks of RawChunks) handed to _resolve_under
MaxRawChunks == 3
\* longest command line (in chunks of CmdChunks) handed to _is_cmd_allowed
MaxCmdChunks == 3
\* most chunks a child process writes to each of stdout and stderr
MaxOut == 1
\* longest text handed to text_preview_or_file directly, and the largest
\* max_chars
MaxTextLen == 3
MaxChars == 2

-----------------------------------------------------------------------------
(* Strings                                                                 *)

Sp == " "
Slash == "/"
Tilde == "~"

Front(s) == SubSeq(s, 1, Len(s) - 1)

StartsWith(s, p) == Len(s) >= Len(p) /\ SubSeq(s, 1, Len(p)) = p

RECURSIVE LStrip(_)
LStrip(s) == IF s # <<>> /\ Head(s) = Sp THEN LStrip(Tail(s)) ELSE s

RECURSIVE RStrip(_)
RStrip(s) == IF s # <<>> /\ s[Len(s)] = Sp THEN RStrip(Front(s)) ELSE s

\* str.strip()
Strip(s) == RStrip(LStrip(s))

RECURSIVE SplitAcc(_, _, _, _)
SplitAcc(s, sep, cur, acc) ==
    IF s = <<>> THEN Append(acc, cur)
    ELSE IF Head(s) = sep
         THEN SplitAcc(Tail(s), sep, <<>>, Append(acc, cur))
         ELSE SplitAcc(Tail(s), sep, Append(cur, Head(s)), acc)

\* str.split(sep): every segment between separators, empty ones included
SplitOn(s, sep) == SplitAcc(s, sep, <<>>, <<>>)

RECURSIVE Concat(_)
Concat(ss) == IF ss = <<>> THEN <<>> ELSE Head(ss) \o Concat(Tail(ss))

RECURSIVE SeqsUpTo(_, _)
SeqsUpTo(S, n) ==
    IF n = 0 THEN {<<>>}
    ELSE LET shorter == SeqsUpTo(S, n - 1)
         IN  shorter \cup {Append(q, x) : q \in shorter, x \in S}

IsPrefix(p, q) == Len(p) <= Len(q) /\ SubSeq(q, 1, Len(p)) = p

-----------------------------------------------------------------------------
(* Paths and the file system                                               *)

Dot == <<".">>
DotDot == <<".", ".">>

nB == <<"b">>          \* the sandbox root, /b
nBX == <<"b", "x">>    \* a sibling sharing a string prefix with it, /bx
nA == <<"a">>
nF == <<"f">>
nG == <<"g">>
nL == <<"l">>
nK == <<"k">>
nO == <<"o">>
nS == <<"s">>
nM == <<"m">>
nN == <<"n">>
nH == <<"h">>

\* settings.base_dir: absolute and already resolved (config.py _ensure_path)
BaseDir == <<nB>>
\* the process's working directory and the caller's home directory
Cwd == <<nH>>
HomeDir == <<nH>>

\* The file system the bot starts on.  /b/l is a symlink leaving the root,
\* /b/a/k a dangling symlink whose target lies outside the root.  tmp holds
\* the files of the directory for temporary files, by name, with what was
\* written to them.
InitFS ==
    [dirs  |-> {<<>>, <<nB>>, <<nB, nA>>, <<nBX>>, <<nO>>, <<nH>>},
     files |-> (<<nB, nA, nF>> :> 1) @@ (<<nB, nG>> :> 2) @@ (<<nO, nS>> :> 1)
                 @@ (<<nBX, nF>> :> 1),
     links |-> (<<nB, nL>> :> <<nO>>) @@ (<<nB, nA, nK>> :> <<nO, nM>>),
     tmp   |-> <<>>]

\* pathlib's parsing of a path string: empty and "." components are dropped,
\* ".." is kept
PathParts(s) == SelectSeq(SplitOn(s, Slash), LAMBDA n : n # <<>> /\ n # Dot)

IsAbs(s) == s # <<>> /\ Head(s) = Slash

RECURSIVE JoinSlash(_)
JoinSlash(parts) ==
    IF parts = <<>> THEN <<>> ELSE <<Slash>> \o Head(parts) \o JoinSlash(Tail(parts))

\* str(path) of an absolute path
PathStr(parts) == IF parts = <<>> THEN <<Slash>> ELSE JoinSlash(parts)

\* os.path.realpath(strict=False), which Path.resolve() calls: ".." pops the
\* last component of what is resolved so far, a symlink is followed (its
\* target is absolute here) whether or not the target exists, and a missing
\* component is appended as it is.
RECURSIVE JoinRealPath(_, _, _)
JoinRealPath(f, path, rest) ==
    IF rest = <<>> THEN path
    ELSE LET name == Head(rest)
             newpath == Append(path, name)
         IN  IF name = DotDot
             THEN JoinRealPath(f, IF path = <<>> THEN <<>> ELSE Front(path), Tail(rest))
             ELSE IF newpath \in DOMAIN f.links
                  THEN JoinRealPath(f, <<>>, f.links[newpath] \o Tail(rest))
                  ELSE JoinRealPath(f, newpath, Tail(rest))

\* Path.resolve() of an absolute path
Resolve(f, parts) == JoinRealPath(f, <<>>, parts)

\* Path.exists(): follows symlinks
Exists(f, parts) ==
    LET real == Resolve(f, parts)
    IN  real \in f.dirs \/ real \in DOMAIN f.files

\* Path.resolve() is called with strict=False and raises no FileNotFoundError
ResolveRaises(f, parts) == FALSE

\* Path.parent: purely lexical
Parent(parts) == IF parts = <<>> THEN <<>> ELSE Front(parts)

RECURSIVE CommonPrefix(_, _)
CommonPrefix(p, q) ==
    IF p = <<>> \/ q = <<>> \/ Head(p) # Head(q) THEN <<>>
    ELSE <<Head(p)>> \o CommonPrefix(Tail(p), Tail(q))

\* os.path.commonpath of one or two absolute path strings: the strings are
\* split on "/" and compared component by component
CommonPath1(s) == PathStr(PathParts(s))
CommonPath2(s, t) == PathStr(CommonPrefix(PathParts(s), PathParts(t)))

\* handlers.py _ensure_inside: TRUE when PermissionError is raised
EscapesByStringPrefix(base, target) == ~StartsWith(PathStr(target), PathStr(base))
Escapes(base, target) ==
    CommonPath1(PathStr(base)) # CommonPath2(PathStr(base), PathStr(target))

EnsureInsideTarget(f, path) ==
    IF ResolveRaises(f, path) THEN Resolve(f, Parent(path)) ELSE Resolve(f, path)

EnsureInsideRaises(f, base_dir, path) ==
    Escapes(Resolve(f, base_dir), EnsureInsideTarget(f, path))

\* os.path.expanduser: "~" and "~/..." become the home directory, "~name" of
\* an unknown user is left as it is
ExpandUser(s) ==
    IF ~StartsWith(s, <<Tilde>>) THEN s
    ELSE IF Len(s) = 1 \/ s[2] = Slash
         THEN PathStr(HomeDir) \o Tail(s)
         ELSE s

\* Path(s).resolve(): a relative path is taken from the working directory
ResolveStr(f, s) ==
    IF IsAbs(s) THEN Resolve(f, PathParts(s)) ELSE Resolve(f, Cwd \o PathParts(s))

\* handlers.py _resolve_under
ResolveUnderCwd(f, base_dir, raw) == ResolveStr(f, Strip(raw))
ResolveUnder(f, base_dir, raw) ==
    LET r == Strip(raw)
    IN  IF r = <<>> \/ r = Dot THEN Resolve(f, base_dir)
        ELSE IF StartsWith(r, <<Slash>>) \/ StartsWith(r, <<Tilde>>)
             THEN ResolveStr(f, ExpandUser(r))
             ELSE Resolve(f, base_dir \o PathParts(r))

-----------------------------------------------------------------------------
(* The command authorizer                                                  *)

SQuote == "'"
DQuote == "\""
BSlash == "\\"
Quotes == {SQuote, DQuote}

UpperToLower ==
    ("S" :> "s") @@ ("U" :> "u") @@ ("D" :> "d") @@ ("O" :> "o") @@ ("L" :> "l")
    @@ ("E" :> "e") @@ ("C" :> "c") @@ ("H" :> "h") @@ ("R" :> "r") @@ ("B" :> "b")
    @@ ("T" :> "t") @@ ("P" :> "p")

\* str.lower()
Lower(s) == [i \in 1..Len(s) |-> IF s[i] \in DOMAIN UpperToLower THEN UpperToLower[s[i]] ELSE s[i]]

\* str.split(): split on runs of whitespace, no empty strings
SplitWs(s) == SelectSeq(SplitOn(s, Sp), LAMBDA w : w # <<>>)

ShlexError == [ok |-> FALSE, parts |-> <<>>]

\* shlex.split(s, posix=True): st is the lexer's state (" " between tokens,
\* "a" in a word, a quote character inside quotes, "\\" after a backslash),
\* esc the state an escape returns to, tok the token read so far, quoted
\* whether it had a quoted part (an empty quoted token is still a token).
\* End of input inside quotes or after a backslash is the ValueError.
RECURSIVE ShlexRun(_, _, _, _, _, _)
ShlexRun(s, st, esc, tok, quoted, acc) ==
    IF s = <<>>
    THEN IF st \in Quotes \/ st = BSlash THEN ShlexError
         ELSE [ok |-> TRUE,
               parts |-> IF tok # <<>> \/ quoted THEN Append(acc, tok) ELSE acc]
    ELSE LET c == Head(s)
             r == Tail(s)
         IN  IF st = Sp
             THEN IF c = Sp THEN ShlexRun(r, Sp, esc, tok, quoted, acc)
                  ELSE IF c = BSlash THEN ShlexRun(r, BSlash, "a", tok, quoted, acc)
                  ELSE IF c \in Quotes THEN ShlexRun(r, c, esc, tok, TRUE, acc)
                  ELSE ShlexRun(r, "a", esc, <<c>>, quoted, acc)
             ELSE IF st = "a"
             THEN IF c = Sp
                  THEN IF tok # <<>> \/ quoted
                       THEN ShlexRun(r, Sp, esc, <<>>, FALSE, Append(acc, tok))
                       ELSE ShlexRun(r, Sp, esc, tok, quoted, acc)
                  ELSE IF c \in Quotes THEN ShlexRun(r, c, esc, tok, TRUE, acc)
                  ELSE IF c = BSlash THEN ShlexRun(r, BSlash, "a", tok, quoted, acc)
                  ELSE ShlexRun(r, "a", esc, Append(tok, c), quoted, acc)
             ELSE IF st \in Quotes
             THEN IF c = st THEN ShlexRun(r, "a", esc, tok, quoted, acc)
                  ELSE IF c = BSlash /\ st = DQuote
                       THEN ShlexRun(r, BSlash, st, tok, quoted, acc)
                       ELSE ShlexRun(r, st, esc, Append(tok, c), quoted, acc)
             ELSE \* after a backslash: inside double quotes it is kept unless
                  \* it escapes a backslash or the quote
                  IF esc \in Quotes /\ c # BSlash /\ c # esc
                  THEN ShlexRun(r, esc, esc, tok \o <<BSlash, c>>, quoted, acc)
                  ELSE ShlexRun(r, esc, esc, Append(tok, c), quoted, acc)

ShlexSplit(s) == ShlexRun(s, Sp, Sp, <<>>, FALSE, <<>>)

\* handlers.py _is_cmd_allowed, lines 92-95: the tokens, by shlex or, when
\* shlex raises, by whitespace
CmdPartsNoFallback(cmd) ==
    LET lexed == ShlexSplit(cmd)
    IN  IF lexed.ok THEN lexed.parts ELSE <<>>
CmdParts(cmd) ==
    LET lexed == ShlexSplit(cmd)
    IN  IF lexed.ok THEN lexed.parts ELSE SplitWs(Strip(cmd))

\* os.path.basename: what follows the last "/"
Basename(s) == LET segs == SplitOn(s, Slash) IN segs[Len(segs)]

wSudo == <<"s", "u", "d", "o">>
wLs == <<"l", "s">>
wEcho == <<"e", "c", "h", "o">>

\* handlers.py _is_cmd_allowed, lines 98-104 (parts is not empty)
NameAllowedByPrefix(parts, allowed) ==
    LET idx == IF Lower(parts[1]) = wSudo /\ Len(parts) > 1 THEN 2 ELSE 1
        base == Lower(Basename(parts[idx]))
    IN  \E a \in allowed : StartsWith(base, Lower(Strip(a)))
NameAllowed(parts, allowed) ==
    LET idx == IF Lower(parts[1]) = wSudo /\ Len(parts) > 1 THEN 2 ELSE 1
        first == parts[idx]
        base == Lower(Basename(first))
        allow_norm == {Lower(Strip(a)) : a \in allowed}
    IN  base \in allow_norm

\* handlers.py _is_cmd_allowed
IsCmdAllowed(cmd, allowed) ==
    IF allowed = {} THEN TRUE
    ELSE LET parts == CmdParts(cmd)
         IN  IF parts = <<>> THEN FALSE
             ELSE NameAllowed(parts, allowed)

-----------------------------------------------------------------------------
(* Settings, events and the access gate                                    *)

\* Settings defaults and handler constants
CommandTimeoutSec == 20
PowerTimeoutSec == 5
\* settings.max_upload_bytes, in the model's size unit
MaxUploadBytes == 1
TimeoutExitCode == 124

\* user ids: 0 stands for a missing from_user (None)
NoUser == 0
AdminUser == 1
OtherUser == 2
Users == {NoUser, AdminUser, OtherUser}

\* config.py Settings: the defaults, with one administrator
DefaultSettings ==
    [admin_ids |-> {AdminUser}, allowed |-> {}, allow_power |-> FALSE,
     command_timeout_sec |-> CommandTimeoutSec, max_upload_bytes |-> MaxUploadBytes]

SettingsSet ==
    {[admin_ids |-> {AdminUser}, allowed |-> al, allow_power |-> pw,
      command_timeout_sec |-> CommandTimeoutSec, max_upload_bytes |-> MaxUploadBytes]
        : al \in {{}, {wLs}}, pw \in BOOLEAN}

\* An event: a Message (its text, or with a document its caption, is body;
\* doc is the size of the attached document, 0 for no document; file_size
\* is the size Telegram declares for it, 0 standing for None), a
\* CallbackQuery (its data is body) or any other update type.
NoEvent == [kind |-> "none", user |-> NoUser, body |-> <<>>, doc |-> 0, file_size |-> 0]

\* one effect of a request: a is a text (or a label), p a path, n a number
E(op, a, p, n) == [op |-> op, a |-> a, p |-> p, n |-> n]
Answer(label) == E("answer", <<label>>, <<>>, 0)
Raised(exc) == E("raised", <<exc>>, <<>>, 0)

wStart == <<"/", "s", "t", "a", "r", "t">>
wHelp == <<"/", "h", "e", "l", "p">>

\* security.py lines 32-42: the identity and the text the middleware reads
GateUserId(e) == IF e.kind \in {"Message", "CallbackQuery"} THEN e.user ELSE NoUser
GateText(e) == IF e.kind \in {"Message", "CallbackQuery"} THEN e.body ELSE <<>>

\* security.py lines 45-48: /start and /help pass for everyone
HelpBypassNever(e) == FALSE
HelpBypass(e) ==
    /\ e.kind = "Message"
    /\ GateText(e) # <<>>
    /\ LET low == Lower(GateText(e))
       IN  StartsWith(low, wStart) \/ StartsWith(low, wHelp)

\* security.py line 50
NotAdminUnlessMissing(e, st) == GateUserId(e) # NoUser /\ GateUserId(e) \notin st.admin_ids
NotAdmin(e, st) == GateUserId(e) = NoUser \/ GateUserId(e) \notin st.admin_ids

\* security.py __call__: the decision
GateDecision(e, st) ==
    IF HelpBypass(e) THEN "allow"
    ELSE IF NotAdmin(e, st) THEN "deny"
    ELSE "allow"

\* security.py lines 51-57: what a denial does before it returns None
GateDenialEffects(e) ==
    <<E("log_warning", <<"Access denied">>, <<>>, GateUserId(e))>>
    \o (IF e.kind = "Message" THEN <<Answer("Access denied")>>
        ELSE IF e.kind = "CallbackQuery" THEN <<Answer("Access denied")>>
        ELSE <<>>)

-----------------------------------------------------------------------------
(* Dispatch to the handlers                                                *)

\* the first whitespace-separated token of a text, and what follows it
FirstToken(s) ==
    LET ws == SplitWs(s) IN IF ws = <<>> THEN <<>> ELSE ws[1]

RECURSIVE DropToken(_)
DropToken(s) == IF s = <<>> \/ Head(s) = Sp THEN s ELSE DropToken(Tail(s))

\* handlers.py _get_args: text.split(maxsplit=1)[1].strip(), or ""
GetArgs(body) == Strip(DropToken(LStrip(body)))

wSh == <<"/", "s", "h">>
wLsCmd == <<"/", "l", "s">>
wCat == <<"/", "c", "a", "t">>
wDownload == <<"/", "d", "o", "w", "n", "l", "o", "a", "d">>
wUpload == <<"/", "u", "p", "l", "o", "a", "d">>
wSysinfo == <<"/", "s", "y", "s", "i", "n", "f", "o">>
wPower == <<"/", "p", "o", "w", "e", "r">>
wBang == <<"!">>

\* the router's filters, in registration order: Command(name) matches a
\* message whose text or caption has "/name" as its first token,
\* F.text.startswith("!") a message whose text (not caption) starts with "!"
Route(e) ==
    IF e.kind # "Message" THEN "none"
    ELSE LET tok == FirstToken(e.body)
         IN  IF tok \in {wStart, wHelp} THEN "cmd_help"
             ELSE IF tok = wSh THEN "cmd_sh"
             ELSE IF e.doc = 0 /\ StartsWith(e.body, wBang) THEN "bang_shell"
             ELSE IF tok = wLsCmd THEN "cmd_ls"
             ELSE IF tok = wCat THEN "cmd_cat"
             ELSE IF tok = wDownload THEN "cmd_download"
             ELSE IF tok = wUpload THEN "cmd_upload"
             ELSE IF tok = wSysinfo THEN "cmd_sysinfo"
             ELSE IF tok = wPower THEN "cmd_power"
             ELSE "none"

-----------------------------------------------------------------------------
(* The bounded executor, run_shell                                         *)

RunIds == {"fg", "bg"}
ExitCodes == {0, 1, TimeoutExitCode}

NoCmdResult == [returncode |-> -1, stdout |-> <<>>, stderr |-> <<>>]

\* One invocation: st is "none", "raised" (no child could be started),
\* "waiting" (in wait_for(communicate())), "killed" (proc.kill() done),
\* "reaped" (proc.wait() done) or "returned"; alive, out, err and code are
\* the child process's; spawns counts the create_subprocess_* calls made,
\* started the children they launched; killed and waited record that
\* proc.kill() and proc.wait() have been done.
NoRun ==
    [st |-> "none", cmd |-> <<>>, timeout |-> 0, alive |-> FALSE,
     out |-> <<>>, err |-> <<>>, code |-> 0, timedout |-> FALSE,
     result |-> NoCmdResult,
     spawns |-> 0, started |-> 0, killed |-> FALSE, waited |-> FALSE]

\* utils.py lines 23-38: create_subprocess_exec launches the child
\* ("exec"), or it raises FileNotFoundError and create_subprocess_shell
\* launches it ("shell"), or that raises as well ("none")
SpawnOutcomes == {"exec", "shell", "none"}

\* the create_subprocess_* calls made, and the children launched
SpawnCalls(how) == IF how = "exec" THEN 1 ELSE 2
LaunchedAlsoByFallback(how) == IF how = "exec" THEN 2 ELSE IF how = "shell" THEN 1 ELSE 0
Launched(how) == IF how = "none" THEN 0 ELSE 1

Spawn(cmd, timeout, how) ==
    [NoRun EXCEPT !.st = IF how = "none" THEN "raised" ELSE "waiting",
                  !.cmd = cmd, !.timeout = timeout,
                  !.alive = (how # "none"),
                  !.spawns = SpawnCalls(how), !.started = Launched(how)]

\* f"{timeout_sec}"
DecimalStr(n) == IF n = 20 THEN "20" ELSE IF n = 5 THEN "5" ELSE "?"

\* utils.py lines 49-51
TimeoutResultWithOutput(r) ==
    [returncode |-> TimeoutExitCode, stdout |-> r.out,
     stderr |-> <<"Timeout after ", DecimalStr(r.timeout), "s">>]
TimeoutResult(r) ==
    [returncode |-> TimeoutExitCode, stdout |-> <<>>,
     stderr |-> <<"Timeout after ", DecimalStr(r.timeout), "s">>]

\* utils.py line 53
NormalResult(r) == [returncode |-> r.code, stdout |-> r.out, stderr |-> r.err]

\* the child writes a chunk to stdout or to stderr; each invocation reads
\* the pipes of the process it created (utils.py lines 28-29, 36-37, 41)
ChildWritesToEveryPipe(id) ==
    /\ run[id].st = "waiting"
    /\ run[id].alive
    /\ Len(run[id].out) < MaxOut
    /\ run' = [i \in RunIds |->
                 IF run[i].st = "waiting" /\ Len(run[i].out) < MaxOut
                 THEN [run[i] EXCEPT !.out = Append(@, id)] ELSE run[i]]
    /\ UNCHANGED <<fs, settings, ev, pc, gate, handler, log, fin, fout>>
ChildWrites(id) ==
    /\ run[id].st = "waiting"
    /\ run[id].alive
    /\ \/ /\ Len(run[id].out) < MaxOut
          /\ run' = [run EXCEPT ![id].out = Append(@, id)]
       \/ /\ Len(run[id].err) < MaxOut
          /\ run' = [run EXCEPT ![id].err = Append(@, id)]
    /\ UNCHANGED <<fs, settings, ev, pc, gate, handler, log, fin, fout>>

\* the child exits on its own
ChildExits(id) ==
    /\ run[id].st = "waiting"
    /\ run[id].alive
    /\ \E c \in ExitCodes : run' = [run EXCEPT ![id].alive = FALSE, ![id].code = c]
    /\ UNCHANGED <<fs, settings, ev, pc, gate, handler, log, fin, fout>>

\* utils.py lines 41, 53: communicate() completes once the child has exited
CommunicateReturns(id) ==
    /\ run[id].st = "waiting"
    /\ ~run[id].alive
    /\ run' = [run EXCEPT ![id].st = "returned", ![id].result = NormalResult(run[id])]
    /\ UNCHANGED <<fs, settings, ev, pc, gate, handler, log, fin, fout>>

\* utils.py lines 42-43: the timeout expires before communicate() has
\* completed; proc.kill() sends SIGKILL (nothing, if the child has exited)
TimeoutNeverFires(id) == FALSE
TimeoutFires(id) ==
    /\ run[id].st = "waiting"
    /\ run' = [run EXCEPT ![id].st = "killed", ![id].killed = TRUE,
                          ![id].timedout = TRUE]
    /\ UNCHANGED <<fs, settings, ev, pc, gate, handler, log, fin, fout>>

\* the signal ends the child
ChildDies(id) ==
    /\ run[id].killed
    /\ run[id].alive
    /\ run' = [run EXCEPT ![id].alive = FALSE, ![id].code = -9]
    /\ UNCHANGED <<fs, settings, ev, pc, gate, handler, log, fin, fout>>

\* utils.py lines 44-48: proc.wait() completes when the child has ended
WaitReapsAtOnce(id) ==
    /\ run[id].st = "killed"
    /\ run' = [run EXCEPT ![id].st = "reaped", ![id].waited = TRUE]
    /\ UNCHANGED <<fs, settings, ev, pc, gate, handler, log, fin, fout>>
WaitReaps(id) ==
    /\ run[id].st = "killed"
    /\ ~run[id].alive
    /\ run' = [run EXCEPT ![id].st = "reaped", ![id].waited = TRUE]
    /\ UNCHANGED <<fs, settings, ev, pc, gate, handler, log, fin, fout>>

\* utils.py lines 49-51
ReturnTimeout(id) ==
    /\ run[id].st = "reaped"
    /\ run' = [run EXCEPT ![id].st = "returned", ![id].result = TimeoutResult(run[id])]
    /\ UNCHANGED <<fs, settings, ev, pc, gate, handler, log, fin, fout>>

\* the detached task of /power ends; nobody reads its result
TaskEnds ==
    /\ run["bg"].st \in {"returned", "raised"}
    /\ run' = [run EXCEPT !["bg"] = NoRun]
    /\ UNCHANGED <<fs, settings, ev, pc, gate, handler, log, fin, fout>>

\* no request yet, nothing running
NoRequest ==
    /\ ev = NoEvent
    /\ pc = "done"
    /\ gate = "pending"
    /\ handler = "none"
    /\ log = <<>>
    /\ run = [id \in RunIds |-> NoRun]

-----------------------------------------------------------------------------
(* The output router, text_preview_or_file                                 *)

CR == "\r"
LF == "\n"
\* a lone surrogate code point, which UTF-8 cannot encode
Surrogate == "U+D800"

EndsWith(s, p) ==
    Len(p) <= Len(s) /\ SubSeq(s, Len(s) - Len(p) + 1, Len(s)) = p

\* utils.py line 70: mkstemp(prefix=f"{filename_prefix}_", suffix=".txt");
\* rnd is the part mkstemp chooses so that the name is new
TmpSuffix == <<".", "t", "x", "t">>
TmpRandoms == {<<"r", "1">>, <<"r", "2">>}
TmpNameWithoutPrefix(prefix, rnd) == rnd \o TmpSuffix
TmpName(prefix, rnd) == prefix \o <<"_">> \o rnd \o TmpSuffix

\* utils.py lines 71-72: the text is encoded as UTF-8 with
\* errors="replace", which writes "?" for what cannot be encoded; the
\* result is given as the text the file's bytes decode to
WrittenAllButLast(text) == IF text = <<>> THEN <<>> ELSE Front(text)
Written(text) == [i \in 1..Len(text) |-> IF text[i] = Surrogate THEN "?" ELSE text[i]]

\* Path.read_text (tests/test_utils.py line 37): text mode with universal
\* newlines, "\r\n" and "\r" are read as "\n"
RECURSIVE ReadText(_)
ReadText(c) ==
    IF c = <<>> THEN <<>>
    ELSE IF Head(c) = CR
         THEN <<LF>> \o ReadText(IF Len(c) > 1 /\ c[2] = LF THEN Tail(Tail(c)) ELSE Tail(c))
         ELSE <<Head(c)>> \o ReadText(Tail(c))

\* utils.py lines 65-68: the text is returned as it is
IsInlineOneMore(text, max_chars) == text = <<>> \/ Len(text) <= max_chars + 1
IsInline(text, max_chars) == text = <<>> \/ Len(text) <= max_chars

\* what can happen on the way to the file: everything works, mkstemp
\* raises, or the write raises after mkstemp has created the file
RouteIO == {"ok", "no temp file", "write fails"}

AddTmp(f, name, content) == [f EXCEPT !.tmp = (name :> content) @@ @]
RemoveTmp(f, name) ==
    [f EXCEPT !.tmp = [n \in (DOMAIN @) \ {name} |-> @[n]]]

\* utils.py text_preview_or_file: what it returns (raised: it raises
\* instead) ...
RouteResult(text, max_chars, prefix, rnd, io) ==
    IF IsInline(text, max_chars)
    THEN [NoResult EXCEPT !.done = TRUE, !.has_preview = TRUE, !.preview = text]
    ELSE IF io = "ok"
    THEN [NoResult EXCEPT !.done = TRUE, !.has_path = TRUE, !.path = TmpName(prefix, rnd)]
    ELSE [NoResult EXCEPT !.done = TRUE, !.raised = TRUE]

\* ... and the file system it leaves
RouteFs(f, text, max_chars, prefix, rnd, io) ==
    IF IsInline(text, max_chars) \/ io = "no temp file" THEN f
    ELSE IF io = "write fails" THEN AddTmp(f, TmpName(prefix, rnd), <<>>)
    ELSE AddTmp(f, TmpName(prefix, rnd), Written(text))

\* the names mkstemp can choose for a prefix
FreshRandoms(f, prefix) == {r \in TmpRandoms : TmpName(prefix, r) \notin DOMAIN f.tmp}

-----------------------------------------------------------------------------
(* The handlers                                                            *)

Fs(f, op, path) == E("fs", <<op>>, Resolve(f, path), 0)

IsFile(f, path) == Resolve(f, path) \in DOMAIN f.files
IsDir(f, path) == Resolve(f, path) \in f.dirs

\* the entries of a directory, symlinks included
Children(f, dir) ==
    {q \in f.dirs \cup DOMAIN f.files \cup DOMAIN f.links :
        Len(q) = Len(dir) + 1 /\ IsPrefix(dir, q)}

RECURSIVE SetToSeq(_)
SetToSeq(S) ==
    IF S = {} THEN <<>>
    ELSE LET x == CHOOSE y \in S : TRUE IN <<x>> \o SetToSeq(S \ {x})

\* handlers.py lines 179-184 (and 217-222, 243-248, 274-279): the path is
\* resolved and checked; TRUE means PermissionError
PathOf(f, arg) == ResolveUnder(f, BaseDir, arg)
EnsureOk(path) == E("ensure_inside", <<"ok">>, path, 1)
EnsureFailed(path) == E("ensure_inside", <<"raised">>, path, 0)

\* handlers.py cmd_help
HelpEffects == <<Answer("HELP")>>

\* handlers.py cmd_sysinfo
SysinfoEffects == <<Answer("sysinfo")>>

\* handlers.py cmd_sh lines 116-123 and bang_shell lines 148-154: what the
\* handler does with its command line
ShOutcomeWithoutPolicy(args, st) == IF args = <<>> THEN "blank" ELSE "run"
ShOutcome(args, st) ==
    IF args = <<>> THEN "blank"
    ELSE IF ~IsCmdAllowed(args, st.allowed) THEN "denied"
    ELSE "run"

\* handlers.py line 148
BangCmd(body) == Strip(Tail(body))

AllowedEntry(cmd, st) ==
    E("is_cmd_allowed", cmd, <<>>, IF IsCmdAllowed(cmd, st.allowed) THEN 1 ELSE 0)
DeniedEffects == <<E("log_warning", <<"Command not allowed">>, <<>>, 0),
                   Answer("Command not allowed by policy.")>>

\* handlers.py cmd_ls.  Sorting the entries calls is_dir() on each, the
\* loop stat()s those that are no directories; both follow symlinks, and
\* stat() of a dangling symlink raises FileNotFoundError, which the loop
\* does not catch.
LsEffects(f, body) ==
    LET arg0 == GetArgs(body)
        arg == IF arg0 = <<>> THEN Dot ELSE arg0
        path == PathOf(f, arg)
        kids == SetToSeq(Children(f, path))
        files == SelectSeq(kids, LAMBDA k : ~IsDir(f, k))
    IN  IF EnsureInsideRaises(f, BaseDir, path)
        THEN <<EnsureFailed(path), Answer("Path not allowed")>>
        ELSE <<EnsureOk(path), Fs(f, "exists", path)>> \o
             (IF ~Exists(f, path) THEN <<Answer("Not found")>>
              ELSE IF IsFile(f, path)
              THEN <<Fs(f, "is_file", path), Fs(f, "stat", path), Answer("FILE")>>
              ELSE <<Fs(f, "is_file", path), Fs(f, "iterdir", path)>>
                   \o [i \in 1..Len(kids) |-> Fs(f, "is_dir", kids[i])]
                   \o [i \in 1..Len(files) |-> Fs(f, "stat", files[i])]
                   \o (IF \E i \in 1..Len(files) : ~Exists(f, files[i])
                       THEN <<Raised("FileNotFoundError")>>
                       ELSE <<Answer("Listing")>>))

\* handlers.py cmd_cat; ioerr: read_text raises
CatEffects(f, body, ioerr) ==
    LET arg == GetArgs(body)
        path == PathOf(f, arg)
    IN  IF arg = <<>> THEN <<Answer("Usage: /cat <path>")>>
        ELSE IF EnsureInsideRaises(f, BaseDir, path)
        THEN <<EnsureFailed(path), Answer("Path not allowed")>>
        ELSE <<EnsureOk(path), Fs(f, "exists", path)>> \o
             (IF ~Exists(f, path) THEN <<Answer("File not found")>>
              ELSE IF ~IsFile(f, path)
              THEN <<Fs(f, "is_file", path), Answer("File not found")>>
              ELSE <<Fs(f, "is_file", path), Fs(f, "read", path)>>
                   \o (IF ioerr THEN <<Answer("Read error")>>
                       ELSE <<Answer("file content")>>))

\* handlers.py cmd_download
DownloadEffects(f, st, body) ==
    LET arg == GetArgs(body)
        path == PathOf(f, arg)
    IN  IF arg = <<>> THEN <<Answer("Usage: /download <path>")>>
        ELSE IF EnsureInsideRaises(f, BaseDir, path)
        THEN <<EnsureFailed(path), Answer("Path not allowed")>>
        ELSE <<EnsureOk(path), Fs(f, "exists", path)>> \o
             (IF ~Exists(f, path) THEN <<Answer("File not found")>>
              ELSE IF ~IsFile(f, path)
              THEN <<Fs(f, "is_file", path), Answer("File not found")>>
              ELSE <<Fs(f, "is_file", path), Fs(f, "stat", path)>>
                   \o (IF f.files[Resolve(f, path)] > st.max_upload_bytes
                       THEN <<Answer("File too large to upload")>>
                       ELSE <<Fs(f, "send", path)>>))

\* mkdir(parents=True, exist_ok=True) fails when a component is a file
MkdirFails(f, dir) == \E i \in 1..Len(dir) : SubSeq(dir, 1, i) \in DOMAIN f.files
Ancestors(dir) == {SubSeq(dir, 1, i) : i \in 0..Len(dir)}
\* writing the attachment fails when the target is a directory
WriteFails(f, target) == target \in f.dirs

\* handlers.py cmd_upload: how far it gets
UploadOutcome(f, st, e) ==
    LET arg == GetArgs(e.body)
        target == PathOf(f, arg)
    IN  IF e.doc = 0 THEN "no document"
        ELSE IF arg = <<>> THEN "usage"
        ELSE IF EnsureInsideRaises(f, BaseDir, target) THEN "not allowed"
        ELSE IF e.file_size > st.max_upload_bytes THEN "too large"
        ELSE IF MkdirFails(f, Parent(target)) THEN "mkdir failed"
        ELSE IF WriteFails(f, target) THEN "write failed"
        ELSE "saved"

UploadEffects(f, st, e) ==
    LET target == PathOf(f, GetArgs(e.body))
        how == UploadOutcome(f, st, e)
    IN  IF how = "no document" THEN <<Answer("Attach a file")>>
        ELSE IF how = "usage" THEN <<Answer("Usage: /upload")>>
        ELSE IF how = "not allowed"
        THEN <<EnsureFailed(target), Answer("Path not allowed")>>
        ELSE IF how = "too large" THEN <<EnsureOk(target), Answer("File too large")>>
        ELSE IF how = "mkdir failed"
        THEN <<EnsureOk(target), Fs(f, "mkdir", Parent(target)),
               Raised("OSError"), Answer("Upload failed")>>
        ELSE IF how = "write failed"
        THEN <<EnsureOk(target), Fs(f, "mkdir", Parent(target)), Fs(f, "write", target),
               Raised("OSError"), Answer("Upload failed")>>
        ELSE <<EnsureOk(target), Fs(f, "mkdir", Parent(target)), Fs(f, "write", target),
               Fs(f, "stat", target), Answer("Saved")>>

\* the file system after cmd_upload
UploadFs(f, st, e) ==
    LET target == PathOf(f, GetArgs(e.body))
        how == UploadOutcome(f, st, e)
    IN  IF how \in {"write failed", "saved"}
        THEN [f EXCEPT !.dirs = @ \cup Ancestors(Parent(target)),
                       !.files = IF how = "saved"
                                 THEN (target :> e.doc) @@ f.files
                                 ELSE f.files]
        ELSE f

wReboot == <<"r", "e", "b", "o", "o", "t">>
wShutdown == <<"s", "h", "u", "t", "d", "o", "w", "n">>
PowerRebootCmd ==
    <<"s", "u", "d", "o", " ", "/", "s", "b", "i", "n", "/", "s", "h",
          "u", "t", "d", "o", "w", "n", " ", "-", "r", " ", "n", "o",
          "w", " ", "|", "|", " ", "s", "u", "d", "o", " ", "/", "u",
          "s", "r", "/", "s", "b", "i", "n", "/", "r", "e", "b", "o",
          "o", "t", " ", "|", "|", " ", "s", "u", "d", "o", " ", "r",
          "e", "b", "o", "o", "t">>
PowerShutdownCmd ==
    <<"s", "u", "d", "o", " ", "/", "s", "b", "i", "n", "/", "s", "h",
          "u", "t", "d", "o", "w", "n", " ", "-", "h", " ", "n", "o",
          "w", " ", "|", "|", " ", "s", "u", "d", "o", " ", "/", "u",
          "s", "r", "/", "s", "b", "i", "n", "/", "p", "o", "w", "e",
          "r", "o", "f", "f", " ", "|", "|", " ", "s", "u", "d", "o",
          " ", "p", "o", "w", "e", "r", "o", "f", "f">>

\* handlers.py cmd_power lines 321-327: does it start the command
PowerOutcomeWithoutSwitch(body, st) ==
    IF Lower(GetArgs(body)) \notin {wReboot, wShutdown} THEN "usage" ELSE "run"
PowerOutcome(body, st) ==
    IF ~st.allow_power THEN "disabled"
    ELSE IF Lower(GetArgs(body)) \notin {wReboot, wShutdown} THEN "usage"
    ELSE "run"

\* handlers.py lines 329-334
PowerCmd(body) ==
    IF Lower(GetArgs(body)) = wReboot THEN PowerRebootCmd ELSE PowerShutdownCmd

-----------------------------------------------------------------------------
(* Requests                                                                *)

WithArg(w, a) == IF a = <<>> THEN w ELSE w \o <<Sp>> \o a

ShArgs == {<<>>, wLs, nN}
PathArgs == {<<>>, nN, nA, nA \o <<Slash>> \o nF, nA \o <<Slash>> \o nK, nG, DotDot,
             nL \o <<Slash>> \o nS, <<Slash>> \o nO \o <<Slash>> \o nS, <<Tilde>>}
PowerArgs == {<<>>, wReboot, <<"R", "e", "b", "o", "o", "t">>, wShutdown, nN}

UploadBodies == {WithArg(wUpload, a) : a \in PathArgs}
TextBodies ==
    {WithArg(wSh, a) : a \in ShArgs}
    \cup {wBang \o a : a \in ShArgs} \cup {wBang \o <<Sp>> \o wLs}
    \cup {WithArg(w, a) : w \in {wLsCmd, wCat, wDownload}, a \in PathArgs}
    \cup UploadBodies
    \cup {WithArg(wPower, a) : a \in PowerArgs}
    \cup {wHelp, wStart, <<"/", "H", "E", "L", "P">>, wHelp \o nN, WithArg(wHelp, nN),
          wSysinfo, <<"h", "i">>, <<>>}
CaptionBodies == UploadBodies \cup {wHelp, WithArg(wSh, wLs), wBang \o wLs, <<>>}
OtherBodies == {<<>>, wHelp, WithArg(wSh, wLs)}

Events ==
    {[kind |-> "Message", user |-> u, body |-> b, doc |-> 0, file_size |-> 0] :
        u \in Users, b \in TextBodies}
    \cup UNION {{[kind |-> "Message", user |-> u, body |-> b, doc |-> d, file_size |-> z] :
                    u \in Users, b \in CaptionBodies, z \in {0, d}} : d \in {1, 2}}
    \cup {[kind |-> k, user |-> u, body |-> b, doc |-> 0, file_size |-> 0] :
             k \in {"CallbackQuery", "Other"}, u \in Users, b \in OtherBodies}

NoCall == [op |-> "none", arg |-> <<>>]

Init ==
    /\ fs = InitFS
    /\ settings \in SettingsSet
    /\ NoRequest
    /\ fin = NoCall
    /\ fout = NoResult

\* an update arrives; the detached task of an earlier /power has ended
Receive ==
    /\ pc = "done"
    /\ run["bg"].st = "none"
    /\ \E e \in Events : ev' = e
    /\ pc' = "gate"
    /\ gate' = "pending"
    /\ handler' = "none"
    /\ log' = <<>>
    /\ run' = [run EXCEPT !["fg"] = NoRun]
    /\ UNCHANGED <<fs, settings, fin, fout>>

\* security.py AdminOnlyMiddleware.__call__
Gate ==
    /\ pc = "gate"
    /\ gate' = GateDecision(ev, settings)
    /\ IF gate' = "deny"
       THEN log' = log \o GateDenialEffects(ev) /\ pc' = "done"
       ELSE log' = log /\ pc' = "handler"
    /\ UNCHANGED <<fs, settings, ev, handler, run, fin, fout>>

\* no filter of the router matches: the update is not handled
Unhandled ==
    /\ pc = "handler"
    /\ Route(ev) = "none"
    /\ pc' = "done"
    /\ UNCHANGED <<fs, settings, ev, gate, handler, log, run, fin, fout>>

\* a handler that runs to its end at once, leaving effects in the log
Finish(name, effects) ==
    /\ pc = "handler"
    /\ Route(ev) = name
    /\ handler' = name
    /\ log' = log \o effects
    /\ pc' = "done"
    /\ UNCHANGED <<settings, ev, gate, run, fin, fout>>

CmdHelp == Finish("cmd_help", HelpEffects) /\ UNCHANGED fs

CmdSysinfo == Finish("cmd_sysinfo", SysinfoEffects) /\ UNCHANGED fs

CmdLs == Finish("cmd_ls", LsEffects(fs, ev.body)) /\ UNCHANGED fs

CmdCat ==
    /\ \E ioerr \in BOOLEAN : Finish("cmd_cat", CatEffects(fs, ev.body, ioerr))
    /\ UNCHANGED fs

CmdDownload ==
    Finish("cmd_download", DownloadEffects(fs, settings, ev.body)) /\ UNCHANGED fs

CmdUpload ==
    /\ Finish("cmd_upload", UploadEffects(fs, settings, ev))
    /\ fs' = UploadFs(fs, settings, ev)

\* cmd_sh and bang_shell up to the call of run_shell
Shell(name, cmd, blankEffects) ==
    /\ pc = "handler"
    /\ Route(ev) = name
    /\ handler' = name
    /\ LET how == ShOutcome(cmd, settings)
       IN  IF how = "blank"
           THEN log' = log \o blankEffects /\ pc' = "done" /\ run' = run
           ELSE IF how = "denied"
           THEN /\ log' = log \o <<AllowedEntry(cmd, settings)>> \o DeniedEffects
                /\ pc' = "done"
                /\ run' = run
           ELSE \E sp \in SpawnOutcomes :
                /\ log' = log \o <<AllowedEntry(cmd, settings),
                                   E("run_shell", cmd, <<>>, settings.command_timeout_sec)>>
                           \o (IF sp = "none" THEN <<Raised("FileNotFoundError")>>
                               ELSE <<>>)
                /\ pc' = IF sp = "none" THEN "done" ELSE "run"
                /\ run' = [run EXCEPT
                              !["fg"] = Spawn(cmd, settings.command_timeout_sec, sp)]
    /\ UNCHANGED <<fs, settings, ev, gate, fin, fout>>

CmdSh == Shell("cmd_sh", GetArgs(ev.body), <<Answer("Usage: /sh <command>")>>)

BangShell == Shell("bang_shell", BangCmd(ev.body), <<>>)

\* cmd_sh lines 125-143, bang_shell lines 156-173: the result is sent
Deliver ==
    /\ pc = "run"
    /\ run["fg"].st = "returned"
    /\ LET res == run["fg"].result
       IN  log' = Append(log, E("reply_result", res.stdout \o res.stderr, <<>>,
                                res.returncode))
    /\ pc' = "done"
    /\ UNCHANGED <<fs, settings, ev, gate, handler, run, fin, fout>>

\* handlers.py cmd_power: the command is started as a detached task
CmdPower ==
    /\ pc = "handler"
    /\ Route(ev) = "cmd_power"
    /\ handler' = "cmd_power"
    /\ LET how == PowerOutcome(ev.body, settings)
       IN  IF how = "disabled"
           THEN log' = Append(log, Answer("Power commands disabled.")) /\ run' = run
           ELSE IF how = "usage"
           THEN log' = Append(log, Answer("Usage: /power <reboot|shutdown>")) /\ run' = run
           ELSE /\ log' = log \o <<Answer("Rebooting or shutting down"),
                                   E("run_shell", PowerCmd(ev.body), <<>>, PowerTimeoutSec)>>
                /\ \E sp \in SpawnOutcomes :
                      run' = [run EXCEPT
                                 !["bg"] = Spawn(PowerCmd(ev.body), PowerTimeoutSec, sp)]
    /\ pc' = "done"
    /\ UNCHANGED <<fs, settings, ev, gate, fin, fout>>

RunStep ==
    \E id \in RunIds :
        \/ ChildWrites(id)
        \/ ChildExits(id)
        \/ CommunicateReturns(id)
        \/ TimeoutFires(id)
        \/ ChildDies(id)
        \/ WaitReaps(id)
        \/ ReturnTimeout(id)

Next ==
    \/ Receive
    \/ Gate
    \/ Unhandled
    \/ CmdHelp
    \/ CmdSh
    \/ BangShell
    \/ CmdLs
    \/ CmdCat
    \/ CmdDownload
    \/ CmdUpload
    \/ CmdSysinfo
    \/ CmdPower
    \/ RunStep
    \/ Deliver
    \/ TaskEnds

Spec == Init /\ [][Next]_vars

-----------------------------------------------------------------------------
(* The bounded executor as a specification: run_shell is called directly,  *)
(* once or twice at the same time, again after an invocation has ended     *)

\* the awaited invocation is that of cmd_sh, the detached one that of
\* cmd_power
RunCmd(id) == IF id = "fg" THEN wLs ELSE PowerRebootCmd
RunTimeout(id) == IF id = "fg" THEN CommandTimeoutSec ELSE PowerTimeoutSec

InitRun ==
    /\ fs = InitFS
    /\ settings = DefaultSettings
    /\ NoRequest
    /\ fin = NoCall
    /\ fout = NoResult

CallRunShell(id) ==
    /\ run[id].st \in {"none", "returned", "raised"}
    /\ \E sp \in SpawnOutcomes :
          run' = [run EXCEPT ![id] = Spawn(RunCmd(id), RunTimeout(id), sp)]
    /\ UNCHANGED <<fs, settings, ev, pc, gate, handler, log, fin, fout>>

NextRun ==
    \/ \E id \in RunIds : CallRunShell(id)
    \/ RunStep

SpecRun == InitRun /\ [][NextRun]_vars

\* The event loop runs every callback that is ready: the timer of
\* wait_for, the completion of communicate() and of wait(), and the
\* continuation of run_shell; a child that was sent SIGKILL ends.
RunFairness ==
    \A id \in RunIds :
        /\ WF_vars(CommunicateReturns(id))
        /\ WF_vars(TimeoutFires(id))
        /\ WF_vars(ChildDies(id))
        /\ WF_vars(WaitReaps(id))
        /\ WF_vars(ReturnTimeout(id))

LiveSpecRun == SpecRun /\ RunFairness

-----------------------------------------------------------------------------
(* The path resolver as a specification: a call is drawn, then made        *)

PathNames == {nB, nBX, nA, nF, nL, nK, nO, nS, nN, DotDot}
EnsureInputs == SeqsUpTo(PathNames, MaxDepth)

RawChunks == {<<Slash>>, DotDot, Dot, <<Sp>>, <<Tilde>>, nA, nF, nL, nK, nO, nN}
RawInputs == {Concat(cs) : cs \in SeqsUpTo(RawChunks, MaxRawChunks)}

InitPath ==
    /\ fs = InitFS
    /\ settings = DefaultSettings
    /\ NoRequest
    /\ fout = NoResult
    /\ \/ \E p \in EnsureInputs : fin = [op |-> "ensure_inside", arg |-> p]
       \/ \E r \in RawInputs : fin = [op |-> "resolve_under", arg |-> r]

CallEnsureInside ==
    /\ fin.op = "ensure_inside"
    /\ fout = NoResult
    /\ fout' = [NoResult EXCEPT !.done = TRUE,
                                !.raised = EnsureInsideRaises(fs, BaseDir, fin.arg)]
    /\ UNCHANGED <<fs, fin, reqvars>>

CallResolveUnder ==
    /\ fin.op = "resolve_under"
    /\ fout = NoResult
    /\ fout' = [NoResult EXCEPT !.done = TRUE,
                                !.path = ResolveUnder(fs, BaseDir, fin.arg)]
    /\ UNCHANGED <<fs, fin, reqvars>>

NextPath == CallEnsureInside \/ CallResolveUnder

SpecPath == InitPath /\ [][NextPath]_vars

-----------------------------------------------------------------------------
(* The command authorizer as a specification                               *)

wBinLs == <<"/", "b", "i", "n", "/", "l", "s">>

\* the command lines of tests/test_handlers.py and of the spec
ExLsLa == <<"l", "s", " ", "-", "l", "a">>
ExSudoBinLs == wSudo \o <<Sp>> \o wBinLs \o <<" ", "-", "l", "a">>
ExEchoHi == <<"E", "C", "H", "O", " ", "h", "i">>
ExLsof == <<"l", "s", "o", "f", " ", "-", "i">>
ExBash == <<"b", "a", "s", "h", " ", "-", "l", "c", " ", "\"", "i", "d", "\"">>
ExampleCmds == {ExLsLa, ExSudoBinLs, ExEchoHi, ExLsof, ExBash}

CmdChunks == {<<Sp>>, wSudo, <<"S", "u", "d", "o">>, wLs, <<"L", "S">>, wBinLs,
              <<"o", "f">>, <<DQuote>>, <<SQuote>>, <<BSlash>>}
CmdInputs == {Concat(cs) : cs \in SeqsUpTo(CmdChunks, MaxCmdChunks)} \cup ExampleCmds

\* settings.allowed_shell_prefixes: lower-cased and stripped by
\* config.py _normalize_allowlist
Allowlists == {{}, {wLs}, {wLs, wEcho}, {wLs, wSudo}}

InitCmd ==
    /\ fs = InitFS
    /\ settings = DefaultSettings
    /\ NoRequest
    /\ fout = NoResult
    /\ \E c \in CmdInputs, al \in Allowlists :
          fin = [op |-> "is_cmd_allowed", arg |-> c, allowed |-> al]

CallIsCmdAllowed ==
    /\ fin.op = "is_cmd_allowed"
    /\ fout = NoResult
    /\ fout' = [NoResult EXCEPT !.done = TRUE,
                                !.allowed = IsCmdAllowed(fin.arg, fin.allowed)]
    /\ UNCHANGED <<fs, fin, reqvars>>

NextCmd == CallIsCmdAllowed

SpecCmd == InitCmd /\ [][NextCmd]_vars

-----------------------------------------------------------------------------
(* The output router as a specification: a call is drawn, then made        *)

RouteChars == {"x", CR, LF, Surrogate}
RouteTexts == SeqsUpTo(RouteChars, MaxTextLen)
wCmdPrefix == <<"c", "m", "d">>
wTstPrefix == <<"t", "s", "t">>
RoutePrefixes == {wCmdPrefix, wTstPrefix}

InitRoute ==
    /\ fs = InitFS
    /\ settings = DefaultSettings
    /\ NoRequest
    /\ fout = NoResult
    /\ \E t \in RouteTexts, m \in 0..MaxChars, px \in RoutePrefixes :
          fin = [op |-> "text_preview_or_file", arg |-> t, max |-> m, prefix |-> px]

CallTextPreviewOrFile ==
    /\ fin.op = "text_preview_or_file"
    /\ fout = NoResult
    /\ \E io \in RouteIO, rnd \in FreshRandoms(fs, fin.prefix) :
          /\ fout' = RouteResult(fin.arg, fin.max, fin.prefix, rnd, io)
          /\ fs' = RouteFs(fs, fin.arg, fin.max, fin.prefix, rnd, io)
    /\ UNCHANGED <<fin, reqvars>>

NextRoute == CallTextPreviewOrFile

SpecRoute == InitRoute /\ [][NextRoute]_vars

-----------------------------------------------------------------------------
(* The delivery of a reply, _send_text_or_file, as a specification: the    *)
(* handlers' last step, called for one request after the other             *)

\* the prefixes the handlers pass: cmd_sh and bang_shell, cmd_ls, cmd_cat
wLsPrefix == <<"l", "s">>
wCatPrefix == <<"c", "a", "t">>
SendPrefixes == {wCmdPrefix, wLsPrefix, wCatPrefix}
SendTexts == SeqsUpTo({"x"}, MaxTextLen)

InitSend ==
    /\ fs = InitFS
    /\ settings = DefaultSettings
    /\ NoRequest
    /\ fin = NoCall
    /\ fout = NoResult

\* a handler calls _send_text_or_file(message, text, max_chars, prefix)
CallSendTextOrFile ==
    /\ pc = "done"
    /\ \E t \in SendTexts, m \in 0..MaxChars, px \in SendPrefixes :
          fin' = [op |-> "send_text_or_file", arg |-> t, max |-> m, prefix |-> px]
    /\ fout' = NoResult
    /\ log' = <<>>
    /\ pc' = "route"
    /\ UNCHANGED <<fs, settings, ev, gate, handler, run>>

\* handlers.py line 71: text_preview_or_file returns or raises; mkstemp
\* raises when it finds no new name
SendRoute ==
    /\ pc = "route"
    /\ \E io \in RouteIO :
          LET fresh == FreshRandoms(fs, fin.prefix)
              rnd == IF fresh = {} THEN CHOOSE r \in TmpRandoms : TRUE
                     ELSE CHOOSE r \in fresh : TRUE
              how == IF fresh = {} THEN "no temp file" ELSE io
              res == RouteResult(fin.arg, fin.max, fin.prefix, rnd, how)
          IN  /\ fout' = res
              /\ fs' = RouteFs(fs, fin.arg, fin.max, fin.prefix, rnd, how)
              /\ pc' = IF res.raised THEN "done"
                       ELSE IF res.has_preview THEN "answer"
                       ELSE "document"
              /\ log' = IF res.raised THEN Append(log, Raised("OSError")) ELSE log
    /\ UNCHANGED <<settings, ev, gate, handler, run, fin>>

\* handlers.py lines 72-73: the text is sent, or sending raises
SendAnswer ==
    /\ pc = "answer"
    /\ \E sent \in BOOLEAN :
          log' = Append(log, IF sent THEN E("answer", fout.preview, <<>>, 0)
                             ELSE Raised("TelegramAPIError"))
    /\ pc' = "done"
    /\ UNCHANGED <<fs, settings, ev, gate, handler, run, fin, fout>>

\* handlers.py lines 75-76: the file is sent, or sending raises; the
\* finally clause follows in both cases
SendDocument ==
    /\ pc = "document"
    /\ \E sent \in BOOLEAN :
          log' = Append(log, IF sent THEN E("answer_document", fout.path, <<>>, 0)
                             ELSE Raised("TelegramAPIError"))
    /\ pc' = "remove"
    /\ UNCHANGED <<fs, settings, ev, gate, handler, run, fin, fout>>

\* handlers.py lines 77-79: os.remove(file_path)
SendRemove ==
    /\ pc = "remove"
    /\ fs' = RemoveTmp(fs, fout.path)
    /\ pc' = "done"
    /\ UNCHANGED <<settings, ev, gate, handler, log, run, fin, fout>>

NextSend ==
    \/ CallSendTextOrFile
    \/ SendRoute
    \/ SendAnswer
    \/ SendDocument
    \/ SendRemove

SpecSend == InitSend /\ [][NextSend]_vars

-----------------------------------------------------------------------------
(* The start of the process as a specification: main loads the settings    *)
(* from the environment, then builds the gate and polls for updates        *)

\* an environment variable: unset, or set to a text
Unset == [set |-> FALSE, v |-> <<>>]
SetTo(s) == [set |-> TRUE, v |-> s]

\* os.getenv(name, default)
Getenv(var, default) == IF var.set THEN var.v ELSE default

DecimalDigits == <<"0", "1", "2", "3", "4", "5", "6", "7", "8", "9">>
Digits == {DecimalDigits[i] : i \in 1..10}
DigitValue(c) == CHOOSE d \in 0..9 : DecimalDigits[d + 1] = c
Signs == {"-", "+"}

AllDigits(s) == s # <<>> /\ \A i \in 1..Len(s) : s[i] \in Digits

\* int(p) of a stripped text accepts an optional sign and decimal digits
\* (the alphabet of the model has no underscore and no other whitespace)
IntAccepts(p) ==
    IF p # <<>> /\ Head(p) \in Signs THEN AllDigits(Tail(p)) ELSE AllDigits(p)

RECURSIVE DecimalValue(_)
DecimalValue(s) ==
    IF s = <<>> THEN 0 ELSE 10 * DecimalValue(Front(s)) + DigitValue(s[Len(s)])

IntOf(p) ==
    IF Head(p) = "-" THEN 0 - DecimalValue(Tail(p))
    ELSE IF Head(p) = "+" THEN DecimalValue(Tail(p))
    ELSE DecimalValue(p)

\* str.replace(";", ",")
ReplaceSemicolons(s) == [i \in 1..Len(s) |-> IF s[i] = ";" THEN "," ELSE s[i]]

\* config.py _parse_admin_ids: the pieces between separators, stripped; the
\* empty ones and those int() rejects are skipped
AdminParts(raw) ==
    LET parts == SplitOn(ReplaceSemicolons(raw), ",")
    IN  {Strip(parts[i]) : i \in 1..Len(parts)}

ParseAdminIdsInvalidAsZero(var) ==
    IF ~var.set \/ var.v = <<>> THEN {}
    ELSE {IF IntAccepts(p) THEN IntOf(p) ELSE 0 : p \in AdminParts(var.v) \ {<<>>}}

ParseAdminIds(var) ==
    IF ~var.set \/ var.v = <<>> THEN {}
    ELSE {IntOf(p) : p \in {q \in AdminParts(var.v) : q # <<>> /\ IntAccepts(q)}}

\* config.py load_settings lines 70-76: the two RuntimeErrors
LoadSettingsRaises(env) ==
    \/ Strip(Getenv(env.BOT_TOKEN, <<>>)) = <<>>
    \/ ParseAdminIds(env.ADMIN_USER_IDS) = {}

\* config.py load_settings lines 78-111, the other variables being unset
LoadSettings(env) ==
    [DefaultSettings EXCEPT !.admin_ids = ParseAdminIds(env.ADMIN_USER_IDS)]

\* before load_settings has returned there are no settings
NoSettings == [DefaultSettings EXCEPT !.admin_ids = {}]

MaxEnvLen == 3
EnvChars == {"1", "2", "a", ",", ";", Sp, "-"}
TestedAdminIds ==
    {<<"1", "2", "3">>,
     <<"1", "2", "3", ",", Sp, "4", "5", "6", Sp, ";", Sp, "7", "8", "9">>,
     <<"1", "2", "a", ",", Sp, "3", "4", "b", ",", Sp, "5", "6">>}
AdminIdsValues ==
    {Unset} \cup {SetTo(s) : s \in SeqsUpTo(EnvChars, MaxEnvLen) \cup TestedAdminIds}
TokenValues == {Unset, SetTo(<<>>), SetTo(<<Sp>>), SetTo(<<"t">>), SetTo(<<Sp, "t">>)}

BootEvents ==
    {[kind |-> "Message", user |-> u, body |-> b, doc |-> 0, file_size |-> 0] :
        u \in Users, b \in {wHelp, wSysinfo, <<"h", "i">>}}

InitBoot ==
    /\ fs = InitFS
    /\ settings = NoSettings
    /\ ev = NoEvent
    /\ pc = "main"
    /\ gate = "pending"
    /\ handler = "none"
    /\ log = <<>>
    /\ run = [id \in RunIds |-> NoRun]
    /\ \E t \in TokenValues, a \in AdminIdsValues :
          fin = [op |-> "main", arg |-> <<>>, BOT_TOKEN |-> t, ADMIN_USER_IDS |-> a]
    /\ fout = NoResult

\* main.py line 59: settings = load_settings(); a RuntimeError ends main
MainLoadSettings ==
    /\ pc = "main"
    /\ IF LoadSettingsRaises(fin)
       THEN /\ fout' = [NoResult EXCEPT !.done = TRUE, !.raised = TRUE]
            /\ pc' = "exited"
            /\ UNCHANGED settings
       ELSE /\ fout' = [NoResult EXCEPT !.done = TRUE]
            /\ pc' = "loaded"
            /\ settings' = LoadSettings(fin)
    /\ UNCHANGED <<fs, ev, gate, handler, log, run, fin>>

\* main.py lines 81-101: the dispatcher with the gate and the router, then
\* polling
MainStartPolling ==
    /\ pc = "loaded"
    /\ pc' = "done"
    /\ UNCHANGED <<fs, settings, ev, gate, handler, log, run, fin, fout>>

\* polling delivers an update
BootReceive ==
    /\ pc = "done"
    /\ \E e \in BootEvents : ev' = e
    /\ pc' = "gate"
    /\ gate' = "pending"
    /\ handler' = "none"
    /\ log' = <<>>
    /\ UNCHANGED <<fs, settings, run, fin, fout>>

NextBoot ==
    \/ MainLoadSettings
    \/ MainStartPolling
    \/ BootReceive
    \/ Gate
    \/ Unhandled
    \/ CmdHelp
    \/ CmdSysinfo

SpecBoot == InitBoot /\ [][NextBoot]_vars

-----------------------------------------------------------------------------
(* Properties of the path resolver (checked under SpecPath)                *)

RootCanonical == Resolve(InitFS, BaseDir)

\* root itself or a component-wise descendant of it
InsideRoot(parts) == IsPrefix(RootCanonical, parts)

EnsureCalled == fin.op = "ensure_inside" /\ fout.done
ResolveCalled == fin.op = "resolve_under" /\ fout.done

\* the canonical form the spec describes: the target's own when the target
\* exists, its parent's when it does not exist yet
ParentFallbackCanonical(parts) ==
    IF Exists(fs, parts) THEN Resolve(fs, parts) ELSE Resolve(fs, Parent(parts))

RelativeRaw(raw) == ~StartsWith(raw, <<Slash>>) /\ ~StartsWith(raw, <<Tilde>>)

\* C5 as stated: for every raw string not starting with "/" or "~" the path
\* _resolve_under returns is, after canonicalization, the root or a
\* descendant of it, and for raw empty or "." it is the root.
C5_AlwaysUnderRoot ==
    ResolveCalled /\ RelativeRaw(fin.arg)
        => /\ InsideRoot(Resolve(fs, fout.path))
           /\ fin.arg \in {<<>>, Dot} => fout.path = RootCanonical

NoDotDot(parts) == \A i \in 1..Len(parts) : parts[i] # DotDot
NoSymlinkOn(parts) == \A i \in 1..Len(parts) : SubSeq(parts, 1, i) \notin DOMAIN fs.links

\* C5 as amended: for every raw string that, once surrounding whitespace is
\* stripped, does not start with "/" or "~", _resolve_under returns the
\* root when the stripped string is empty or ".", and otherwise a path that
\* is the root or a descendant of it whenever the string has no ".."
\* component and no symlink lies on the joined path (it is then the root
\* followed by the string's components).  With a ".." component or a
\* symlink on the way the result may lie outside the root.
C5_UnderRootWithoutDotDotOrSymlink ==
    ResolveCalled /\ RelativeRaw(Strip(fin.arg))
        => LET r == Strip(fin.arg)
               joined == BaseDir \o PathParts(r)
           IN  /\ r \in {<<>>, Dot} => fout.path = RootCanonical
               /\ NoDotDot(PathParts(r)) /\ NoSymlinkOn(joined)
                     => InsideRoot(fout.path) /\ fout.path = joined

\* C5 witness: "a/f" has been resolved to /b/a/f
C5_Witness ==
    /\ ResolveCalled
    /\ fin.arg = nA \o <<Slash>> \o nF
    /\ fout.path = <<nB, nA, nF>>

-----------------------------------------------------------------------------
(* Properties of the command authorizer (checked under SpecCmd)            *)

AllowedCalled == fin.op = "is_cmd_allowed" /\ fout.done

\* a blank command line: it tokenizes to no token at all
Blank(cmd) == CmdParts(cmd) = <<>>

HasSlash(s) == \E i \in 1..Len(s) : s[i] = Slash

\* the executable token: the first, or the second after a leading "sudo"
ExeToken(parts) ==
    IF Len(parts) >= 2 /\ Lower(parts[1]) = wSudo THEN parts[2] ELSE parts[1]

\* t's name without its directories: the suffix of t that holds no "/" and
\* is all of t or follows a "/"
IsBasenameOf(b, t) ==
    /\ Len(b) <= Len(t)
    /\ SubSeq(t, Len(t) - Len(b) + 1, Len(t)) = b
    /\ ~HasSlash(b)
    /\ Len(b) = Len(t) \/ t[Len(t) - Len(b)] = Slash

\* C6: for every non-blank command line, _is_cmd_allowed is true with an
\* empty allowlist, and with a non-empty one it is true iff the lower-cased
\* basename of the executable token is in the allowlist; the tokens after
\* the executable token do not matter.  With {ls, echo}: "ls -la",
\* "sudo /bin/ls -la" and "ECHO hi" are allowed, "lsof -i" and
\* bash -lc "id" are not.
C6_AllowedIffExecutableListed ==
    /\ AllowedCalled /\ ~Blank(fin.arg)
          => LET exe == ExeToken(CmdParts(fin.arg))
             IN  /\ fin.allowed = {} => fout.allowed
                 /\ fin.allowed # {} =>
                       (fout.allowed <=>
                           \E a \in fin.allowed : IsBasenameOf(a, Lower(exe)))
    /\ AllowedCalled /\ fin.allowed = {wLs, wEcho}
          => /\ fin.arg \in {ExLsLa, ExSudoBinLs, ExEchoHi} => fout.allowed
             /\ fin.arg \in {ExLsof, ExBash} => ~fout.allowed

\* C6 witness: "sudo /bin/ls" has been allowed under the allowlist {ls}
C6_Witness ==
    /\ AllowedCalled
    /\ fin.arg = wSudo \o <<Sp>> \o wBinLs
    /\ fin.allowed = {wLs}
    /\ fout.allowed

\* C7: a blank command line is rejected by _is_cmd_allowed for every
\* allowlist.
C7_BlankRejected == AllowedCalled /\ Blank(fin.arg) => ~fout.allowed

-----------------------------------------------------------------------------
(* Properties of the access gate and the handlers (checked under Spec)     *)

IsAdmin(e) == e.user # NoUser /\ e.user \in settings.admin_ids

\* the help/greeting operation as the gate sees it: a message whose text
\* begins with /start or /help, in any letter case
IsGreeting(e) ==
    e.kind = "Message" /\ \E w \in {wStart, wHelp} : StartsWith(Lower(e.body), w)

\* the help/greeting command proper: /start or /help is the first token
IsHelpCommand(e) == e.kind = "Message" /\ FirstToken(e.body) \in {wStart, wHelp}

Answered(label) == \E i \in 1..Len(log) : log[i].op = "answer" /\ log[i].a = <<label>>

\* C1: the gate passes an event on only if the caller is an administrator
\* or the event is the help/greeting operation, and no handler other than
\* cmd_help is ever entered for a request whose identity is missing or is
\* not in the admin set.
C1_OnlyAdminsPastGate ==
    /\ gate = "allow" => IsAdmin(ev) \/ IsGreeting(ev)
    /\ handler \notin {"none", "cmd_help"} => IsAdmin(ev)

\* C1 witness: a /sh request of a non-administrator has been denied and has
\* ended without any handler
C1_Witness ==
    /\ pc = "done"
    /\ ev.user = OtherUser
    /\ Route(ev) = "cmd_sh"
    /\ gate = "deny"
    /\ handler = "none"

C3_DenialIsAnswered == gate = "deny" => Answered("Access denied")

RunHandoffs == {i \in 1..Len(log) : log[i].op = "run_shell"}

AuthorizedBefore(i) ==
    \E j \in 1..(i - 1) :
        log[j].op = "is_cmd_allowed" /\ log[j].a = log[i].a /\ log[j].n = 1

FileHandlers == {"cmd_ls", "cmd_cat", "cmd_download", "cmd_upload"}

\* C9: in cmd_ls, cmd_cat, cmd_download and cmd_upload no file system
\* operation happens unless _ensure_inside has succeeded earlier in the
\* request, a failed check leaves the reply "Path not allowed" as the only
\* effect, and no file operation touches a path outside the sandbox root.
C9_FileOpsStayInsideRoot ==
    handler \in FileHandlers
        => /\ \A i \in 1..Len(log) :
                 log[i].op = "fs"
                     => \E j \in 1..(i - 1) : log[j].op = "ensure_inside" /\ log[j].n = 1
           /\ \A j \in 1..Len(log) :
                 log[j].op = "ensure_inside" /\ log[j].n = 0
                     => /\ Len(log) = 2
                        /\ j = 1
                        /\ log[2] = Answer("Path not allowed")
           /\ \A i \in 1..Len(log) : log[i].op = "fs" => InsideRoot(log[i].p)

\* C10: an invocation of run_shell that timed out returns exactly exit code
\* 124, an empty stdout and "Timeout after Ns" with N the timeout passed in
\* (settings.command_timeout_sec for cmd_sh and bang_shell, 5 for
\* cmd_power); what the child wrote before it was killed is in neither the
\* result nor the reply.
C10_TimeoutResult ==
    /\ \A id \in RunIds :
          run[id].st = "returned" /\ run[id].timedout
              => /\ run[id].result.returncode = 124
                 /\ run[id].result.stdout = <<>>
                 /\ run[id].result.stderr =
                       <<"Timeout after ", IF id = "fg" THEN "20" ELSE "5", "s">>
    /\ pc = "done" /\ run["fg"].timedout
          => log[Len(log)] = E("reply_result", <<"Timeout after ", "20", "s">>, <<>>, 124)

\* C10 witness: the child of a /sh request wrote output, was killed on
\* timeout, and run_shell has returned
C10_Witness ==
    /\ run["fg"].st = "returned"
    /\ run["fg"].timedout
    /\ run["fg"].out # <<>>
    /\ run["fg"].err # <<>>

-----------------------------------------------------------------------------
(* Properties of the bounded executor (checked under Spec and LiveSpecRun) *)

C12_RunAlwaysReturns ==
    /\ [](\A id \in RunIds :
            run[id].st = "waiting" /\ run[id].alive => ENABLED TimeoutFires(id))
    /\ \A id \in RunIds : (run[id].st = "waiting") ~> (run[id].st = "returned")

\* C12 witness: the detached invocation of /power has returned the timeout
\* result after its child was killed
C12_Witness ==
    /\ run["bg"].st = "returned"
    /\ run["bg"].timedout
    /\ run["bg"].code = -9
    /\ run["bg"].result.returncode = TimeoutExitCode

\* C20: within one request run_shell is called at most once, and one
\* invocation launches at most one child: the fallback spawn is made only
\* after the first spawn failed, and nothing is started again after a
\* failure or a timeout.
C20_NoRetries ==
    /\ Cardinality(RunHandoffs) <= 1
    /\ \A id \in RunIds :
          /\ run[id].started <= 1
          /\ run[id].spawns <= 2
          /\ run[id].st = "raised" => run[id].started = 0 /\ run[id].spawns = 2
          /\ run[id].st \in {"waiting", "killed", "reaped", "returned"}
                => run[id].started = 1

\* C20 witness: the first spawn failed, the fallback launched the child,
\* the child timed out and run_shell has returned without another start
C20_Witness ==
    /\ run["fg"].st = "returned"
    /\ run["fg"].timedout
    /\ run["fg"].spawns = 2
    /\ run["fg"].started = 1

-----------------------------------------------------------------------------
(* Properties of the output router (checked under SpecRoute)               *)

RouteCalled == fin.op = "text_preview_or_file" /\ fout.done
FitsInline == fin.arg = <<>> \/ Len(fin.arg) <= fin.max
Encodable(text) == \A i \in 1..Len(text) : text[i] # Surrogate
NoCarriageReturn(text) == \A i \in 1..Len(text) : text[i] # CR

ArtifactReturned == RouteCalled /\ ~FitsInline /\ ~fout.raised

ArtifactNamed ==
    /\ fout.has_path
    /\ fout.path \in DOMAIN fs.tmp
    /\ StartsWith(fout.path, fin.prefix \o <<"_">>)
    /\ EndsWith(fout.path, TmpSuffix)

\* C14 as stated: for every text longer than max_chars the file exists
\* when text_preview_or_file returns, its name starts with the prefix and
\* "_" and ends with ".txt", and its contents read back equal the text.
C14_RoundTrip ==
    ArtifactReturned => ArtifactNamed /\ ReadText(fs.tmp[fout.path]) = fin.arg

\* C14 as amended: the file exists, is named with the prefix and ".txt",
\* and holds the text with "?" in the place of every character UTF-8
\* cannot encode; so the contents equal the text when the text is
\* encodable, and reading them back in text mode gives the text when it
\* has, in addition, no carriage return.
C14_RoundTripOfEncodableText ==
    ArtifactReturned
        => /\ ArtifactNamed
           /\ Len(fs.tmp[fout.path]) = Len(fin.arg)
           /\ \A i \in 1..Len(fin.arg) :
                 fs.tmp[fout.path][i] = IF fin.arg[i] = Surrogate THEN "?" ELSE fin.arg[i]
           /\ Encodable(fin.arg) => fs.tmp[fout.path] = fin.arg
           /\ Encodable(fin.arg) /\ NoCarriageReturn(fin.arg)
                 => ReadText(fs.tmp[fout.path]) = fin.arg

\* C14 witness: an encodable text of several lines, longer than max_chars,
\* has been written to a file
C14_Witness ==
    /\ ArtifactReturned
    /\ fout.has_path
    /\ Len(fin.arg) = MaxTextLen
    /\ Encodable(fin.arg)
    /\ NoCarriageReturn(fin.arg)
    /\ \E i \in 1..Len(fin.arg) : fin.arg[i] = LF

-----------------------------------------------------------------------------
(* Properties of the delivery of a reply (checked under SpecSend)          *)

\* C15: once a request that created a temporary file has finished (the
\* file was delivered, the delivery raised, or an error occurred after the
\* file was created, a failed write included), that file no longer exists:
\* between requests there is no temporary file.
C15_NoArtifactLeftBehind == pc = "done" => DOMAIN fs.tmp = {}

-----------------------------------------------------------------------------
(* Properties of the transfers (checked under Spec)                        *)

FsOps(names) == {i \in 1..Len(log) : log[i].op = "fs" /\ log[i].a[1] \in names}

\* C16: in cmd_download and cmd_upload a transfer (the file is sent; the
\* parent directories are created and the attachment is written) starts
\* only when the size of the payload is not larger than max_upload_bytes;
\* a request that is answered "too large" transfers nothing; no payload
\* larger than max_upload_bytes is ever transferred.
C16_NoOversizeTransfer ==
    /\ handler = "cmd_upload" /\ FsOps({"mkdir", "write"}) # {}
          => ev.doc <= settings.max_upload_bytes
    /\ handler = "cmd_download"
          => \A i \in FsOps({"send"}) : fs.files[log[i].p] <= settings.max_upload_bytes
    /\ Answered("File too large") \/ Answered("File too large to upload")
          => FsOps({"mkdir", "write", "send"}) = {}

\* an exception has left the handler
Raises == \E i \in 1..Len(log) : log[i].op = "raised"

\* a result, a text or a file has been sent to the caller
Responded ==
    \E i \in 1..Len(log) :
        \/ log[i].op \in {"answer", "reply_result"}
        \/ log[i].op = "fs" /\ log[i].a = <<"send">>

\* C17: every request that passed the gate and was dispatched to a handler
\* has got at least one response (a result, a usage text, a denial or an
\* error message) when the handler has finished, blank or missing
\* arguments included (stated for the requests whose handler returns; one
\* that an exception leaves has no response either).
C17_NothingFailsSilently == pc = "done" /\ handler # "none" /\ ~Raises => Responded

\* C19: the timeout result is always delivered: when an invocation of
\* run_shell has returned on the timeout path and the handler that
\* started it has finished, the caller has received a response with the
\* exit code 124 and the timeout message.
C19_TimeoutResultDelivered ==
    \A id \in RunIds :
        pc = "done" /\ run[id].st = "returned" /\ run[id].timedout
            => \E i \in 1..Len(log) :
                  /\ log[i].op = "reply_result"
                  /\ log[i].n = TimeoutExitCode
                  /\ log[i].a = run[id].result.stderr

-----------------------------------------------------------------------------
(* Properties of the start of the process (checked under SpecBoot)         *)

EnvSeparators == {",", ";"}

\* BOT_TOKEN is missing or blank
TokenMissingOrBlank ==
    ~fin.BOT_TOKEN.set \/ \A i \in 1..Len(fin.BOT_TOKEN.v) : fin.BOT_TOKEN.v[i] = Sp

\* raw[i..j] is an integer standing alone between two separators (or an
\* end of the text), spaces around it apart
IntegerAt(raw, i, j) ==
    /\ \/ \A m \in i..j : raw[m] \in Digits
       \/ i < j /\ raw[i] \in Signs /\ \A m \in (i + 1)..j : raw[m] \in Digits
    /\ \E l \in 0..(i - 1) :
          /\ l = 0 \/ raw[l] \in EnvSeparators
          /\ \A m \in (l + 1)..(i - 1) : raw[m] = Sp
    /\ \E r \in (j + 1)..(Len(raw) + 1) :
          /\ r = Len(raw) + 1 \/ raw[r] \in EnvSeparators
          /\ \A m \in (j + 1)..(r - 1) : raw[m] = Sp

\* ADMIN_USER_IDS is missing, empty or holds no valid integer id
NoValidAdminId ==
    \/ ~fin.ADMIN_USER_IDS.set
    \/ LET raw == fin.ADMIN_USER_IDS.v
       IN  ~\E i \in 1..Len(raw), j \in 1..Len(raw) : i <= j /\ IntegerAt(raw, i, j)

RequiredConfigurationMissing == TokenMissingOrBlank \/ NoValidAdminId

\* C18: load_settings raises exactly when BOT_TOKEN is missing or blank or
\* ADMIN_USER_IDS yields no valid integer id; main then ends before the gate
\* is built and before polling, so that no request is ever processed; and
\* whenever a request is being processed the admin set is not empty
C18_RefusesToStartUnconfigured ==
    /\ pc # "main" => (fout.raised <=> RequiredConfigurationMissing)
    /\ fout.raised => pc = "exited" /\ ev = NoEvent /\ gate = "pending" /\ log = <<>>
    /\ RequiredConfigurationMissing => pc \in {"main", "exited"}
    /\ ev # NoEvent => settings.admin_ids # {}

\* a token is set but ADMIN_USER_IDS holds only non-numeric tokens: main has
\* ended on the RuntimeError
C18_Witness ==
    /\ pc = "exited"
    /\ fout.raised
    /\ ~TokenMissingOrBlank
    /\ fin.ADMIN_USER_IDS.set
    /\ \E i \in 1..Len(fin.ADMIN_USER_IDS.v) : fin.ADMIN_USER_IDS.v[i] = "a"

-----------------------------------------------------------------------------
(* Properties of concurrent invocations (checked under SpecRun)            *)

OwnChunks(id, chunks) == \A i \in 1..Len(chunks) : chunks[i] = id

\* what an invocation holds comes from the child it started
OwnOutput(id) ==
    /\ OwnChunks(id, run[id].out) /\ OwnChunks(id, run[id].err)
    /\ run[id].st = "returned" /\ ~run[id].timedout
          => /\ run[id].result.returncode = run[id].code
             /\ run[id].result.stdout = run[id].out
             /\ run[id].result.stderr = run[id].err
             /\ ~run[id].killed

\* a step touches one invocation only, and a child ends on SIGKILL only
\* after its own invocation has timed out
OwnStep(id) ==
    /\ run'[id] # run[id] => \A other \in RunIds \ {id} : run'[other] = run[other]
    /\ run[id].alive /\ ~run'[id].alive /\ run'[id].code = -9
          => run[id].timedout /\ run[id].killed

\* C21: two invocations of run_shell in flight at the same time are
\* independent: a timeout in one kills only the child that invocation
\* started, every result (exit code, stdout, stderr) comes only from the
\* invocation's own child, and no step of one invocation changes the other.
C21_InvocationsIndependent ==
    /\ [](\A id \in RunIds : OwnOutput(id))
    /\ [][\A id \in RunIds : OwnStep(id)]_vars

\* C21 witness: the timeout of the awaited invocation has killed its child
\* while the child of the detached invocation, which has written output, is
\* still running
C21_Witness ==
    /\ run["fg"].st = "killed" /\ ~run["fg"].alive /\ run["fg"].code = -9
    /\ run["bg"].st = "waiting" /\ run["bg"].alive /\ run["bg"].out = <<"bg">>

\* C22: a result of run_shell carries exit code 124 only if the invocation
\* timed out and killed its child; the code is never that of a child that
\* exited on its own.
C22_TimeoutCodeReserved ==
    \A id \in RunIds :
        run[id].st = "returned" /\ run[id].result.returncode = TimeoutExitCode
            => run[id].timedout /\ run[id].killed

-----------------------------------------------------------------------------
(* Properties of the handler boundary (checked under Spec)                 *)

\* the exception logged at i was caught: the handler went on to answer
CaughtAndAnswered(i) == \E j \in (i + 1)..Len(log) : log[j].op = "answer"

\* C23: no exception of an underlying file operation (an unreadable or
\* vanished file or directory, a failing stat) leaves a handler: when a
\* request of cmd_ls, cmd_cat, cmd_download or cmd_upload has ended, every
\* exception raised while it was handled has been caught and followed by
\* an error message to the caller.
C23_ExceptionsStopAtHandler ==
    pc = "done" /\ handler \in FileHandlers
        => \A i \in 1..Len(log) : log[i].op = "raised" => CaughtAndAnswered(i)

-----------------------------------------------------------------------------
(* Properties of the tokenization fallback (checked under SpecCmd)         *)

\* shlex.split raises on the command line
TokenizationFails(cmd) == ~ShlexSplit(cmd).ok

\* cmd[i..j] is a whitespace-separated token: a maximal run without a space
IsWsToken(cmd, i, j) ==
    /\ 1 <= i /\ i <= j /\ j <= Len(cmd)
    /\ \A m \in i..j : cmd[m] # Sp
    /\ i = 1 \/ cmd[i - 1] = Sp
    /\ j = Len(cmd) \/ cmd[j + 1] = Sp

\* the number of tokens that begin before position i
WsTokensBefore(cmd, i) ==
    Cardinality({k \in 1..(i - 1) : cmd[k] # Sp /\ (k = 1 \/ cmd[k - 1] = Sp)})

\* the sudo-skip and basename test on the whitespace-separated tokens: t is
\* the first token, or the second when the first is "sudo" in any case and
\* a second exists
WsTestPasses(cmd, allowed) ==
    \E i \in 1..Len(cmd), j \in 1..Len(cmd) :
        /\ IsWsToken(cmd, i, j)
        /\ LET t == SubSeq(cmd, i, j)
               n == WsTokensBefore(cmd, i)
               first == CHOOSE e \in 1..Len(cmd) : IsWsToken(cmd, 1 + Len(cmd) - Len(LStrip(cmd)), e)
               firstTok == SubSeq(cmd, 1 + Len(cmd) - Len(LStrip(cmd)), first)
               sudoFirst == Lower(firstTok) = wSudo
               more == \E k \in (first + 1)..Len(cmd) : cmd[k] # Sp
           IN  /\ IF sudoFirst /\ more THEN n = 1 ELSE n = 0
               /\ \E a \in allowed : IsBasenameOf(a, Lower(t))

\* C24: with a non-empty allowlist, a command line on which shlex.split
\* fails is not rejected outright: _is_cmd_allowed is true iff the
\* sudo-skip and basename test passes on the whitespace-separated tokens.
C24_FallbackToWhitespace ==
    AllowedCalled /\ fin.allowed # {} /\ TokenizationFails(fin.arg)
        => (fout.allowed <=> WsTestPasses(fin.arg, fin.allowed))

\* C24 witness: "ls" followed by an unterminated quote has been allowed
\* under a non-empty allowlist
C24_Witness ==
    /\ AllowedCalled
    /\ fin.allowed = {wLs}
    /\ fin.arg = wLs \o <<Sp, DQuote>>
    /\ TokenizationFails(fin.arg)
    /\ fout.allowed

-----------------------------------------------------------------------------
(* Properties of cmd_power (checked under Spec)                            *)

\* the request is /power with exactly reboot or shutdown, in any letter case
PowerRequested ==
    Lower(ev.body) \in {wPower \o <<Sp>> \o wReboot, wPower \o <<Sp>> \o wShutdown}

PowerPermitted == settings.allow_power /\ PowerRequested

\* a command line has been handed to run_shell in this request
HandedOff == \E i \in 1..Len(log) : log[i].op = "run_shell"

\* C25: cmd_power starts a child process only when power commands are
\* enabled and the argument is exactly reboot or shutdown in any letter
\* case, and in every other case nothing is executed; when it starts one,
\* the acknowledgement has been sent before the command is launched and the
\* handler has ended without waiting for the command's result.
C25_PowerOnlyWhenEnabled ==
    /\ run["bg"] # NoRun => handler = "cmd_power" /\ PowerPermitted
    /\ handler = "cmd_power"
          => /\ pc = "done"
             /\ run["fg"] = NoRun
             /\ HandedOff => PowerPermitted
             /\ ~PowerPermitted => run["bg"] = NoRun
             /\ \A i \in 1..Len(log) :
                   /\ log[i].op = "run_shell"
                         => /\ log[i].a \in {PowerRebootCmd, PowerShutdownCmd}
                            /\ \E j \in 1..(i - 1) :
                                  log[j] = Answer("Rebooting or shutting down")
                   /\ log[i].op # "reply_result"

\* C25 witness: "/power Reboot" with power commands enabled: the handler
\* has ended after the acknowledgement while the child is still running
C25_Witness ==
    /\ handler = "cmd_power"
    /\ pc = "done"
    /\ settings.allow_power
    /\ ev.body = wPower \o <<Sp, "R", "e", "b", "o", "o", "t">>
    /\ log = <<Answer("Rebooting or shutting down"),
               E("run_shell", PowerRebootCmd, <<>>, PowerTimeoutSec)>>
    /\ run["bg"].st = "waiting" /\ run["bg"].alive

====
